---- MODULE Spec2Model ----
(***************************************************************************)
(* Model of bgent's memory layer (src/lib/memory.ts, class MemoryManager)  *)
(* and of the evaluator prompt helpers (evaluator examples rendering).     *)
(*                                                                         *)
(* Abstractions used throughout:                                           *)
(*  - an embedding vector is the record [len, tag]: its length and a tag   *)
(*    standing for its numeric contents (two vectors are the same vector   *)
(*    iff both agree);                                                     *)
(*  - undefined (an omitted option, an absent field) is Undef for a text,  *)
(*    NoEmbedding for a vector, Omitted for a number;                      *)
(*  - a string is either a TLA+ string (opaque text) or, where the code    *)
(*    rewrites it, a sequence of characters.                               *)
(***************************************************************************)
EXTENDS Integers, Sequences, FiniteSets, TLC

VARIABLES
    mem,        \* the callers' Memory objects: object -> [id, userId, content, embedding]
    calls,      \* addEmbeddingToMemory calls in flight, one per calling context
    db,         \* StorageBackend: table name -> set of persisted Memory records
    last,       \* the most recent completed StorageBackend-delegating call
    created,    \* the Memory persisted by the latest createMemory, until a removal
    example,    \* the evaluator example being rendered
    rendered,   \* formatEvaluatorExamples' output for it
    registry,   \* EvaluatorSelector's evaluator registry (names)
    selection   \* EvaluatorSelector's latest run

vars == <<mem, calls, db, last, created, example, rendered, registry, selection>>

Undef == "undefined"

\* the backend's tables: the manager's own and another manager's
Tables == { "messages", "facts" }

\* no delegating call made yet
NoCall == [op |-> "none"]

EmptyDb == [t \in Tables |-> {}]

\* EvaluatorSelector not yet run
NotSelected ==
    [done |-> FALSE, prompt |-> << >>, invoked |-> FALSE, response |-> << >>,
     outcome |-> Undef, result |-> << >>]

\* formatEvaluatorExamples not yet called
NotRendered == [done |-> FALSE, instances |-> << >>, text |-> << >>]

----------------------------------------------------------------------------
(* Constants of memory.ts *)

embeddingDimension == 1536

Vec(n, t) == [len |-> n, tag |-> t]

\* an absent embedding field
NoEmbedding == Vec(0 - 1, "undefined")

\* Array(embeddingDimension).fill(0)
embeddingZeroVector == Vec(embeddingDimension, "zero")

\* 0.1, in tenths
defaultMatchThreshold == 1

defaultMatchCount == 10

----------------------------------------------------------------------------
(* Bounds *)

\* calling contexts that may run addEmbeddingToMemory concurrently
NumProcs == 2

Procs == 1..NumProcs

\* vectors an Embedder call may return: right and wrong lengths, two contents
EmbedderVectors ==
    { Vec(n, t) : n \in {0, embeddingDimension, embeddingDimension + 1},
                  t \in {"a", "b"} }

\* embeddings a caller may have put on a Memory before the call ([] is an array too)
CallerEmbeddings == { NoEmbedding, Vec(0, "a"), Vec(embeddingDimension, "a") }

\* memory.content.content as the caller built it
CallerTexts == { Undef, "", "hello" }

EmptyContentError == "Memory content is empty"
EmbeddingError == "EmbeddingError"
BackendError == "BackendError"

\* JavaScript truthiness of an optional string
Truthy(x) == x \notin { Undef, "" }

\* JavaScript truthiness of an optional array: every array is truthy, [] too
TruthyArray(v) == v # NoEmbedding

----------------------------------------------------------------------------
(* addEmbeddingToMemory: lines 47-58.  The call runs synchronously up to   *)
(* `await this.runtime.embed(memoryText)`, where it suspends; the          *)
(* assignment to memory.embedding and the return run when the Embedder     *)
(* replies.  Other calls may run in between.                               *)

IdleCall ==
    [pc |-> "idle", arg |-> 0, entry |-> NoEmbedding, text |-> Undef,
     embedCalls |-> 0, reply |-> NoEmbedding, rejection |-> Undef,
     ret |-> NoEmbedding, retObj |-> 0, err |-> Undef]

\* a length test instead of the truthiness test: [] would count as unset
MutHasEmbeddingByLength(memory) == memory.embedding.len > 0

\* no early return at all
MutNeverHasEmbedding(memory) == FALSE

\* line 48: `if (memory.embedding)`
HasEmbedding(memory) == TruthyArray(memory.embedding)

\* the check of line 53 left out
MutContentNeverEmpty(memoryText) == FALSE

\* line 53: `if (!memoryText)`
ContentIsEmpty(memoryText) == ~Truthy(memoryText)

\* the placeholder assigned whatever the Embedder replied
MutAssignZeroVector(memoryText, reply) == embeddingZeroVector

\* lines 54-56: the value assigned to memory.embedding once the Embedder has
\* replied (memoryText is truthy past line 53: the zero-vector branch is dead)
AssignedEmbedding(memoryText, reply) ==
    IF Truthy(memoryText) THEN reply ELSE embeddingZeroVector

\* lines 54-55: a rejected Embedder call is not caught: the call throws its error
EmbedRejected(c) == [c EXCEPT !.pc = "threw", !.err = c.rejection]

\* lines 47-55, up to the suspension at the Embedder call
AddEmbeddingStart(p, o) ==
    /\ calls[p].pc = "idle"
    /\ LET memory == mem[o]
           memoryText == memory.content
           c0 == [calls[p] EXCEPT !.arg = o, !.entry = memory.embedding]
       IN IF HasEmbedding(memory)
          THEN /\ calls' = [calls EXCEPT ![p] =
                      [c0 EXCEPT !.pc = "returned", !.retObj = o,
                                 !.ret = memory.embedding]]
               /\ mem' = mem
          ELSE IF ContentIsEmpty(memoryText)
          THEN /\ calls' = [calls EXCEPT ![p] =
                      [c0 EXCEPT !.pc = "threw", !.err = EmptyContentError]]
               /\ mem' = mem
          ELSE IF Truthy(memoryText)
          THEN /\ calls' = [calls EXCEPT ![p] =
                      [c0 EXCEPT !.pc = "awaitEmbed", !.text = memoryText,
                                 !.embedCalls = @ + 1]]
               /\ mem' = mem
          ELSE \* `: embeddingZeroVector.slice()`, no Embedder call
               /\ calls' = [calls EXCEPT ![p] =
                      [c0 EXCEPT !.pc = "returned", !.retObj = o,
                                 !.ret = embeddingZeroVector]]
               /\ mem' = [mem EXCEPT ![o].embedding = embeddingZeroVector]
    /\ UNCHANGED <<db, last, created, example, rendered, registry, selection>>

\* lines 54-57: the Embedder resolves with v; assignment and return
AddEmbeddingResume(p, v) ==
    /\ calls[p].pc = "awaitEmbed"
    /\ LET o == calls[p].arg
           e == AssignedEmbedding(calls[p].text, v)
       IN /\ mem' = [mem EXCEPT ![o].embedding = e]
          /\ calls' = [calls EXCEPT ![p] =
                 [@ EXCEPT !.pc = "returned", !.reply = v, !.retObj = o, !.ret = e]]
    /\ UNCHANGED <<db, last, created, example, rendered, registry, selection>>

\* lines 54-55: the Embedder rejects
AddEmbeddingFail(p) ==
    /\ calls[p].pc = "awaitEmbed"
    /\ calls' = [calls EXCEPT ![p] =
           EmbedRejected([@ EXCEPT !.rejection = EmbeddingError])]
    /\ UNCHANGED <<mem, db, last, created, example, rendered, registry, selection>>

EmbedNext ==
    \/ \E p \in DOMAIN calls, o \in DOMAIN mem : AddEmbeddingStart(p, o)
    \/ \E p \in DOMAIN calls, v \in EmbedderVectors : AddEmbeddingResume(p, v)
    \/ \E p \in DOMAIN calls : AddEmbeddingFail(p)

----------------------------------------------------------------------------
(* JavaScript values of the options the delegating methods take *)

\* an omitted numeric option
Omitted == 0 - 1

\* count: Infinity
Infinity == 0 - 2

\* an omitted userIds option
OmittedIds == << Undef >>

\* `x = d` in a destructuring or a parameter list: d replaces undefined only
Default(x, d) == IF x = Omitted THEN d ELSE x

DefaultFlag(x, d) == IF x = Undef THEN d ELSE x

DefaultIds(x, d) == IF x = OmittedIds THEN d ELSE x

\* `!!unique`
ToBoolean(x) == IF x = "true" THEN "true" ELSE "false"

Range(seq) == { seq[i] : i \in DOMAIN seq }

----------------------------------------------------------------------------
(* MemoryManager: the constructor and what each method hands to            *)
(* runtime.databaseAdapter                                                 *)

\* lines 31-40: this.tableName of the manager under study
tableName == "messages"

\* lines 68-82
GetMemoriesByIdsArgs(opts) ==
    [userIds |-> opts.userIds, count |-> Default(opts.count, 10),
     unique |-> DefaultFlag(opts.unique, "true"), tableName |-> tableName]

\* lines 86-94
GetMemoryByContentArgs(content) ==
    [query_table_name |-> tableName, query_threshold |-> 2,
     query_input |-> content, query_field_name |-> "content",
     query_field_sub_name |-> "content", query_match_count |-> 10]

\* `||` defaults instead of destructuring defaults: a given 0 is replaced too
MutSearchArgsFalsyDefaults(embedding, opts) ==
    [tableName |-> tableName,
     userIds |-> DefaultIds(opts.userIds, << >>),
     embedding |-> embedding,
     match_threshold |-> IF opts.match_threshold \in { Omitted, 0 }
                         THEN defaultMatchThreshold ELSE opts.match_threshold,
     match_count |-> IF opts.count \in { Omitted, 0 }
                     THEN defaultMatchCount ELSE opts.count,
     unique |-> ToBoolean(opts.unique)]

\* lines 117-136
SearchMemoriesArgs(embedding, opts) ==
    [tableName |-> tableName,
     userIds |-> DefaultIds(opts.userIds, << >>),
     embedding |-> embedding,
     match_threshold |-> Default(opts.match_threshold, defaultMatchThreshold),
     match_count |-> Default(opts.count, defaultMatchCount),
     unique |-> ToBoolean(opts.unique)]

\* the record written to another table than the manager's
MutCreateArgsOtherTable(memory, unique) ==
    [memory |-> memory, tableName |-> "facts",
     unique |-> DefaultFlag(unique, "false")]

\* lines 149-154
CreateMemoryArgs(memory, unique) ==
    [memory |-> memory, tableName |-> tableName,
     unique |-> DefaultFlag(unique, "false")]

\* line 163
RemoveMemoryArgs(memoryId) == [memoryId |-> memoryId, tableName |-> tableName]

\* lines 172-175
RemoveAllArgs(userIds) == [userIds |-> userIds, tableName |-> tableName]

\* the default of `unique` taken to be false
MutCountArgsDefaultFalse(userIds, unique) ==
    [userIds |-> userIds, unique |-> DefaultFlag(unique, "false"),
     tableName |-> tableName]

\* lines 184-192
CountMemoriesArgs(userIds, unique) ==
    [userIds |-> userIds, unique |-> DefaultFlag(unique, "true"),
     tableName |-> tableName]

----------------------------------------------------------------------------
(* StorageBackend (runtime.databaseAdapter): not part of the sources at    *)
(* hand; modelled from its contract.  Which records a limit keeps and      *)
(* which record stands for a group of equal contents are the backend's     *)
(* choice, so the results are sets of possible outcomes.                   *)

OkSet(S) == [ok |-> TRUE, err |-> Undef, set |-> S, num |-> 0]
OkNum(n) == [ok |-> TRUE, err |-> Undef, set |-> {}, num |-> n]
OkVoid == [ok |-> TRUE, err |-> Undef, set |-> {}, num |-> 0]
Failed == [ok |-> FALSE, err |-> BackendError, set |-> {}, num |-> 0]

Matching(t, userIds) == { r \in db[t] : r.userId \in Range(userIds) }

Contents(S) == { r.content : r \in S }

\* S collapsed to unique content: one record of S for each content in S
RECURSIVE Collapses(_)
Collapses(S) ==
    IF S = {} THEN { {} }
    ELSE LET c == (CHOOSE r \in S : TRUE).content
             same == { r \in S : r.content = c }
         IN { {r} \cup T : r \in same, T \in Collapses(S \ same) }

\* S limited to count records
Limited(S, count) ==
    IF count = Infinity \/ Cardinality(S) <= count THEN { S }
    ELSE { T \in SUBSET S : Cardinality(T) = count }

Selected(S, unique, count) ==
    UNION { Limited(U, count) : U \in (IF unique = "true" THEN Collapses(S) ELSE { S }) }

BackendGetMemoriesByIds(a) ==
    { OkSet(T) : T \in Selected(Matching(a.tableName, a.userIds), a.unique, a.count) }
        \cup { Failed }

\* content similarity is modelled as equality of the text
BackendGetMemoryByContent(a) ==
    { OkSet(T) : T \in Selected({ r \in db[a.query_table_name] :
                                      r.content = a.query_input },
                                "false", a.query_match_count) }
        \cup { Failed }

\* vector similarity is modelled as equality of the vectors
BackendSearchMemories(a) ==
    { OkSet(T) : T \in Selected({ r \in Matching(a.tableName, a.userIds) :
                                      r.embedding = a.embedding },
                                a.unique, a.match_count) }
        \cup { Failed }

Similar(a) ==
    { r \in db[a.tableName] :
        r.userId = a.memory.userId /\ r.content = a.memory.content }

\* the table after a createMemory that the backend accepted: with unique
\* set and a similar record present the backend merges (or rejects, which
\* is Failed); otherwise the record is stored under its id
BackendCreateMemory(a) ==
    IF a.unique = "true" /\ Similar(a) # {}
    THEN db
    ELSE [db EXCEPT ![a.tableName] =
             { r \in @ : r.id # a.memory.id } \cup { a.memory }]

BackendRemoveMemory(a) ==
    [db EXCEPT ![a.tableName] = { r \in @ : r.id # a.memoryId }]

BackendRemoveAll(a) ==
    [db EXCEPT ![a.tableName] = { r \in @ : r.userId \notin Range(a.userIds) }]

BackendCountMemories(a) ==
    LET S == Matching(a.tableName, a.userIds)
    IN { OkNum(IF a.unique = "true" THEN Cardinality(Contents(S))
                                    ELSE Cardinality(S)) } \cup { Failed }

----------------------------------------------------------------------------
(* The delegating methods: each awaits one backend call and returns what   *)
(* it resolves to; a rejection is not caught.                              *)

\* a rejected backend call answered with an empty result
MutSwallowFailure(op, args, fwd, reply) ==
    [op |-> op, args |-> args, fwd |-> fwd, backendCalls |-> 1, reply |-> reply,
     outcome |-> "returned", err |-> Undef,
     resultSet |-> reply.set, resultNum |-> reply.num]

\* `const result = await adapter.op(fwd); return result;`
Delegated(op, args, fwd, reply) ==
    [op |-> op, args |-> args, fwd |-> fwd, backendCalls |-> 1, reply |-> reply,
     outcome |-> IF reply.ok THEN "returned" ELSE "threw", err |-> reply.err,
     resultSet |-> reply.set, resultNum |-> reply.num]

NoMemory == [id |-> 0 - 1, userId |-> Undef, content |-> Undef, embedding |-> NoEmbedding]

NoCreated == [memory |-> NoMemory, unique |-> Undef]

\* lines 68-84
GetMemoriesByIds(opts) ==
    /\ \E reply \in BackendGetMemoriesByIds(GetMemoriesByIdsArgs(opts)) :
          last' = Delegated("getMemoriesByIds", opts, GetMemoriesByIdsArgs(opts), reply)
    /\ UNCHANGED <<mem, calls, db, created, example, rendered, registry, selection>>

\* lines 86-96
GetMemoryByContent(content) ==
    /\ \E reply \in BackendGetMemoryByContent(GetMemoryByContentArgs(content)) :
          last' = Delegated("getMemoryByContent", content,
                            GetMemoryByContentArgs(content), reply)
    /\ UNCHANGED <<mem, calls, db, created, example, rendered, registry, selection>>

\* lines 108-141
SearchMemoriesByEmbedding(embedding, opts) ==
    /\ \E reply \in BackendSearchMemories(SearchMemoriesArgs(embedding, opts)) :
          last' = Delegated("searchMemoriesByEmbedding",
                            [embedding |-> embedding, opts |-> opts],
                            SearchMemoriesArgs(embedding, opts), reply)
    /\ UNCHANGED <<mem, calls, db, created, example, rendered, registry, selection>>

\* lines 149-155
CreateMemory(o, unique) ==
    LET a == CreateMemoryArgs(mem[o], unique)
    IN /\ \E reply \in { OkVoid, Failed } :
            /\ last' = Delegated("createMemory",
                                 [memory |-> mem[o], unique |-> unique], a, reply)
            /\ db' = IF reply.ok THEN BackendCreateMemory(a) ELSE db
            /\ created' = IF reply.ok THEN [memory |-> mem[o], unique |-> unique]
                                      ELSE created
       /\ UNCHANGED <<mem, calls, example, rendered, registry, selection>>

\* lines 162-164
RemoveMemory(memoryId) ==
    LET a == RemoveMemoryArgs(memoryId)
    IN /\ \E reply \in { OkVoid, Failed } :
            /\ last' = Delegated("removeMemory", memoryId, a, reply)
            /\ db' = IF reply.ok THEN BackendRemoveMemory(a) ELSE db
            /\ created' = IF reply.ok THEN NoCreated ELSE created
       /\ UNCHANGED <<mem, calls, example, rendered, registry, selection>>

\* lines 171-176
RemoveAllMemoriesByUserIds(userIds) ==
    LET a == RemoveAllArgs(userIds)
    IN /\ \E reply \in { OkVoid, Failed } :
            /\ last' = Delegated("removeAllMemoriesByUserIds", userIds, a, reply)
            /\ db' = IF reply.ok THEN BackendRemoveAll(a) ELSE db
            /\ created' = IF reply.ok THEN NoCreated ELSE created
       /\ UNCHANGED <<mem, calls, example, rendered, registry, selection>>

\* lines 184-193
CountMemoriesByUserIds(userIds, unique) ==
    /\ \E reply \in BackendCountMemories(CountMemoriesArgs(userIds, unique)) :
          last' = Delegated("countMemoriesByUserIds",
                            [userIds |-> userIds, unique |-> unique],
                            CountMemoriesArgs(userIds, unique), reply)
    /\ UNCHANGED <<mem, calls, db, created, example, rendered, registry, selection>>

----------------------------------------------------------------------------
(* Inputs of the delegating methods *)

Flags == { "true", "false", Undef }

UserIdArgs == { << "u1" >>, << "u2" >>, << "u1", "u2" >> }

\* count and unique as callers give them: both defaulted (one user's
\* memories), or all records asked for
GetOpts ==
    { [userIds |-> << u >>, count |-> Omitted, unique |-> Undef] : u \in { "u1", "u2" } }
    \cup
    { [userIds |-> u, count |-> Infinity, unique |-> f] : u \in UserIdArgs, f \in Flags }

SearchOpts ==
    { [match_threshold |-> Omitted, count |-> Omitted, userIds |-> OmittedIds,
       unique |-> Undef],
      [match_threshold |-> defaultMatchThreshold, count |-> 5, userIds |-> OmittedIds,
       unique |-> Undef],
      [match_threshold |-> 5, count |-> 1, userIds |-> << "u1" >>, unique |-> "true"],
      [match_threshold |-> 0, count |-> 0, userIds |-> << >>, unique |-> "false"] }

QueryVectors == { Vec(embeddingDimension, "a") }

StoreNext ==
    \/ \E opts \in GetOpts : GetMemoriesByIds(opts)
    \/ \E o \in DOMAIN mem : GetMemoryByContent(mem[o].content)
    \/ \E e \in QueryVectors, opts \in SearchOpts : SearchMemoriesByEmbedding(e, opts)
    \/ \E o \in DOMAIN mem, unique \in Flags : CreateMemory(o, unique)
    \/ \E o \in DOMAIN mem : RemoveMemory(mem[o].id)
    \/ \E userIds \in UserIdArgs : RemoveAllMemoriesByUserIds(userIds)
    \/ \E userIds \in UserIdArgs, unique \in Flags : CountMemoriesByUserIds(userIds, unique)

----------------------------------------------------------------------------
(* Values of the parts of the state a specification does not use *)

\* Memory objects the callers of addEmbeddingToMemory hold
EmbedObjs == { 1, 2 }

InitEmbed ==
    /\ mem \in [EmbedObjs ->
                 [id : {0}, userId : {"u1"}, content : CallerTexts,
                  embedding : CallerEmbeddings]]
    /\ \A o \in EmbedObjs : mem[o].id = 0
    /\ calls = [p \in Procs |-> IdleCall]
    /\ db = EmptyDb
    /\ last = NoCall
    /\ created = NoCreated
    /\ example = << >>
    /\ rendered = NotRendered
    /\ registry = <<>>
    /\ selection = NotSelected

SpecEmbed == InitEmbed /\ [][EmbedNext]_vars

----------------------------------------------------------------------------
(* The store under load: one manager on a table that already holds         *)
(* memories of user u1, and four Memory objects its callers create and     *)
(* remove.                                                                 *)

\* memories of u1 already in the manager's table, with distinct contents
NumStored == 9

Mem(i, u, c) ==
    [id |-> i, userId |-> u, content |-> c, embedding |-> Vec(embeddingDimension, "a")]

StoredMemories == { Mem(100 + i, "u1", ToString(i)) : i \in 1..NumStored }

\* 1 and 3 are near-duplicates; 4 is another user's
StoreHeap ==
    [o \in 1..4 |->
        CASE o = 1 -> Mem(1, "u1", "hello")
          [] o = 2 -> Mem(2, "u1", "bye")
          [] o = 3 -> [Mem(3, "u1", "hello") EXCEPT !.embedding = Vec(embeddingDimension, "b")]
          [] o = 4 -> Mem(4, "u2", "hello")]

InitStore ==
    /\ mem = StoreHeap
    /\ calls = [p \in Procs |-> IdleCall]
    /\ db = [t \in Tables |->
                IF t = tableName THEN StoredMemories
                ELSE { Mem(200, "u1", "fact"), Mem(201, "u2", "fact") }]
    /\ last = NoCall
    /\ created = NoCreated
    /\ example = << >>
    /\ rendered = NotRendered
    /\ registry = <<>>
    /\ selection = NotSelected

SpecStore == InitStore /\ [][StoreNext]_vars

----------------------------------------------------------------------------
(* Claims about addEmbeddingToMemory *)

Started(p) == calls[p].pc # "idle"

\* C1: a call on a Memory whose embedding is already set returns that same
\* object with the embedding it had at entry, and makes no Embedder call.
C1_AlreadyEmbeddedIsNoOp ==
    \A p \in Procs :
        (Started(p) /\ TruthyArray(calls[p].entry)) =>
            /\ calls[p].pc = "returned"
            /\ calls[p].retObj = calls[p].arg
            /\ calls[p].ret = calls[p].entry
            /\ calls[p].embedCalls = 0

\* an empty array is an embedding that is set
C1_Witness ==
    \E p \in Procs :
        /\ calls[p].pc = "returned"
        /\ calls[p].entry = Vec(0, "a")
        /\ mem[calls[p].arg].content = "hello"

\* C2: a call on a Memory without embedding whose content.content is absent
\* or empty throws the empty-content error, makes no Embedder call, and the
\* Memory's embedding stays absent.
C2_EmptyContentThrows ==
    \A p \in Procs :
        (Started(p) /\ calls[p].entry = NoEmbedding
                    /\ mem[calls[p].arg].content \in { Undef, "" }) =>
            /\ calls[p].pc = "threw"
            /\ calls[p].err = EmptyContentError
            /\ calls[p].embedCalls = 0
            /\ mem[calls[p].arg].embedding = NoEmbedding

C2_Witness ==
    /\ \E p \in Procs :
        calls[p].pc = "threw" /\ mem[calls[p].arg].content = ""
    /\ \E p \in Procs :
        calls[p].pc = "threw" /\ mem[calls[p].arg].content = Undef

EmbeddedByCall(p) ==
    /\ calls[p].pc = "returned"
    /\ calls[p].entry = NoEmbedding
    /\ Truthy(mem[calls[p].arg].content)

\* C3 as stated: the returned Memory's embedding has length exactly
\* embeddingDimension, whatever vector the Embedder returned.
C3_Original_LengthAlwaysD ==
    \A p \in Procs :
        EmbeddedByCall(p) =>
            /\ TruthyArray(calls[p].ret)
            /\ calls[p].ret.len = embeddingDimension

\* C3 amended: the returned Memory's embedding is set and is exactly the
\* vector the Embedder returned to this call, so its length is
\* embeddingDimension exactly when the Embedder's vector has that length.
C3_EmbeddingIsEmbedderReply ==
    \A p \in Procs :
        EmbeddedByCall(p) =>
            /\ calls[p].retObj = calls[p].arg
            /\ TruthyArray(calls[p].ret)
            /\ calls[p].ret = calls[p].reply
            /\ calls[p].embedCalls = 1
            /\ (calls[p].ret.len = embeddingDimension
                    <=> calls[p].reply.len = embeddingDimension)

C3_Witness ==
    \E p \in Procs :
        /\ EmbeddedByCall(p)
        /\ calls[p].reply = Vec(embeddingDimension, "b")
        /\ mem[calls[p].arg].embedding = calls[p].ret

\* Embedder invocations made for Memory object o
RECURSIVE SumEmbedCalls(_, _)
SumEmbedCalls(o, ps) ==
    IF ps = {} THEN 0
    ELSE LET p == CHOOSE q \in ps : TRUE
         IN (IF calls[p].arg = o THEN calls[p].embedCalls ELSE 0)
                + SumEmbedCalls(o, ps \ {p})

Suspended(o) == { p \in Procs : calls[p].pc = "awaitEmbed" /\ calls[p].arg = o }

\* C10 as stated: under any interleaving, an embedding once set is never
\* overwritten with a different vector and the Embedder is invoked at most
\* once for the Memory.
C10_Original_SetOnce ==
    [][\A o \in DOMAIN mem :
          /\ TruthyArray(mem[o].embedding) => mem'[o].embedding = mem[o].embedding
          /\ SumEmbedCalls(o, Procs)' <= 1]_vars

\* C10 amended: an embedding that is set is overwritten only by a call that
\* was already suspended at the Embedder (it entered while the embedding was
\* absent); and the Embedder is invoked once per call that entered while the
\* embedding was absent and the content non-empty, never more.
C10_OverwriteOnlyBySuspendedCall ==
    [][\A o \in DOMAIN mem :
          /\ (TruthyArray(mem[o].embedding) /\ Suspended(o) = {})
                => mem'[o].embedding = mem[o].embedding
          /\ SumEmbedCalls(o, Procs)' =
                Cardinality({ p \in Procs :
                    /\ calls'[p].arg = o
                    /\ calls'[p].pc # "idle"
                    /\ calls'[p].entry = NoEmbedding
                    /\ Truthy(mem'[o].content) })]_vars

\* two calls on one Memory both invoked the Embedder and the second to resume
\* replaced the first one's vector
C10_Witness ==
    \E p, q \in Procs :
        /\ p # q
        /\ calls[p].arg = calls[q].arg
        /\ calls[p].pc = "returned" /\ calls[q].pc = "returned"
        /\ calls[p].embedCalls = 1 /\ calls[q].embedCalls = 1
        /\ calls[p].ret # calls[q].ret
        /\ mem[calls[p].arg].embedding = calls[q].ret

----------------------------------------------------------------------------
(* Claims about the delegating methods, on the loaded store *)

\* what both readings of C4 share: one searchMemories call that carries the
\* caller's vector, the manager's table name, and the match threshold, count
\* and userIds as given, 0.1 (1 tenth), 10 and [] only in place of omitted
\* ones; the backend's result returned as it is
SearchForwards ==
    LET o == last.args.opts
    IN /\ last.backendCalls = 1
       /\ last.fwd.tableName = "messages"
       /\ last.fwd.embedding = last.args.embedding
       /\ last.fwd.match_threshold =
             (IF o.match_threshold = Omitted THEN 1 ELSE o.match_threshold)
       /\ last.fwd.match_count = (IF o.count = Omitted THEN 10 ELSE o.count)
       /\ last.fwd.userIds = (IF o.userIds = OmittedIds THEN << >> ELSE o.userIds)
       /\ (last.reply.ok =>
             last.outcome = "returned" /\ last.resultSet = last.reply.set)

\* C4 as stated: the call carries the caller's values exactly as given,
\* unique too, nothing but the three defaults being put in place of an
\* omitted option.
C4_Original_UniqueAsGiven ==
    last.op = "searchMemoriesByEmbedding" =>
        SearchForwards /\ last.fwd.unique = last.args.opts.unique

\* C4 amended: as stated for the vector, match threshold, count, userIds,
\* table name and result; unique is forwarded as a boolean: as given when
\* given, false when omitted.
C4_SearchForwardsArguments ==
    last.op = "searchMemoriesByEmbedding" =>
        /\ SearchForwards
        /\ last.fwd.unique =
              (IF last.args.opts.unique = Undef THEN "false" ELSE last.args.opts.unique)

\* the scenario of the specification: {matchThreshold: 0.1, count: 5}, unique
\* omitted
C4_Witness ==
    /\ last.op = "searchMemoriesByEmbedding"
    /\ last.outcome = "returned"
    /\ last.args.opts = [match_threshold |-> 1, count |-> 5, userIds |-> OmittedIds,
                         unique |-> Undef]
    /\ last.fwd.match_count = 5
    /\ last.fwd.unique = "false"

\* a record equal to m up to the fields the backend assigns
EqualRecord(r, m) == r.userId = m.userId /\ r.content = m.content

\* getMemoriesByIds({userIds: [m.userId]}) has returned after createMemory(m)
\* succeeded, nothing having been removed in between
RoundTrip ==
    /\ created # NoCreated
    /\ created.unique = Undef
    /\ last.op = "getMemoriesByIds"
    /\ last.outcome = "returned"
    /\ last.args = [userIds |-> << created.memory.userId >>,
                    count |-> Omitted, unique |-> Undef]

SameQuery(c, g) ==
    /\ c.op = "countMemoriesByUserIds" /\ c.outcome = "returned"
    /\ g.op = "getMemoriesByIds" /\ g.outcome = "returned"
    /\ g.args.count = Infinity
    /\ g.args.userIds = c.args.userIds
    /\ g.args.unique = c.args.unique

\* C6: on any store state the sequence of createMemory, removeMemory and
\* removeAllMemoriesByUserIds calls leads to, countMemoriesByUserIds(ids,
\* unique) and getMemoriesByIds({userIds: ids, count: Infinity, unique}),
\* called one after the other, agree: the count is the result's length.
C6_CountIsLengthOfGet ==
    [][/\ SameQuery(last', last) => last'.resultNum = Cardinality(last.resultSet)
       /\ SameQuery(last, last') => last.resultNum = Cardinality(last'.resultSet)]_vars

\* counted with unique defaulted while two records share a content, after a
\* removal
C6_Witness ==
    /\ last.op = "countMemoriesByUserIds" /\ last.outcome = "returned"
    /\ last.args = [userIds |-> << "u1", "u2" >>, unique |-> Undef]
    /\ { mem[1], mem[3], mem[4] } \subseteq db["messages"]
    /\ StoredMemories \cap db["messages"] = {}
    /\ last.resultNum = 1

----------------------------------------------------------------------------
(* Every MemoryManager method together: one calling context embedding one  *)
(* Memory while the delegating methods run on an empty store.              *)

InitAll ==
    /\ mem \in [{ 1 } -> [id : { 1 }, userId : { "u1" }, content : { "", "hello" },
                          embedding : { NoEmbedding }]]
    /\ calls = [p \in { 1 } |-> IdleCall]
    /\ db = EmptyDb
    /\ last = NoCall
    /\ created = NoCreated
    /\ example = << >>
    /\ rendered = NotRendered
    /\ registry = <<>>
    /\ selection = NotSelected

AllNext == EmbedNext \/ StoreNext

SpecAll == InitAll /\ [][AllNext]_vars

\* C7: no retry and no local recovery.  A call invokes its collaborator
\* (Embedder or StorageBackend) at most once, and when that invocation fails
\* the call throws that same error and hands back no result.
C7_NoRetryNoRecovery ==
    /\ \A p \in DOMAIN calls :
          /\ calls[p].embedCalls <= 1
          /\ calls[p].rejection # Undef =>
                /\ calls[p].pc = "threw"
                /\ calls[p].err = calls[p].rejection
                /\ calls[p].retObj = 0
                /\ mem[calls[p].arg].embedding = calls[p].entry
    /\ last.op # "none" =>
          /\ last.backendCalls <= 1
          /\ ~last.reply.ok =>
                /\ last.outcome = "threw"
                /\ last.err = last.reply.err
                /\ last.resultSet = {}
                /\ last.resultNum = 0

\* the Embedder has rejected the embedding call and the backend a createMemory
C7_Witness ==
    /\ calls[1].rejection = EmbeddingError
    /\ calls[1].pc = "threw"
    /\ last.op = "createMemory"
    /\ last.outcome = "threw"
    /\ db = EmptyDb

----------------------------------------------------------------------------
(* formatEvaluatorExamples (evaluator prompt helpers, lines 83-120).       *)
(* A string is a sequence of characters; "user" and each generated name    *)
(* stand for their letters, which take no part in any match.               *)

\* an absent message.content.action
NoAction == << Undef >>

\* `Array.from({ length: 5 }, ...)`
NumExampleNames == 5

\* `{{user${index + 1}}}`, index + 1 = k
Placeholder(k) == << "{", "{", "user", ToString(k), "}", "}" >>

StartsWith(s, pat) == Len(s) >= Len(pat) /\ SubSeq(s, 1, Len(pat)) = pat

\* String.prototype.replace with a string pattern: the first occurrence only
RECURSIVE MutReplaceFirst(_, _, _)
MutReplaceFirst(s, pat, rep) ==
    IF Len(s) < Len(pat) THEN s
    ELSE IF StartsWith(s, pat) THEN rep \o SubSeq(s, Len(pat) + 1, Len(s))
    ELSE << Head(s) >> \o MutReplaceFirst(Tail(s), pat, rep)

\* String.prototype.replaceAll with a string pattern: every occurrence, left
\* to right, the replacement not searched again
RECURSIVE ReplaceAll(_, _, _)
ReplaceAll(s, pat, rep) ==
    IF Len(s) < Len(pat) THEN s
    ELSE IF StartsWith(s, pat)
         THEN rep \o ReplaceAll(SubSeq(s, Len(pat) + 1, Len(s)), pat, rep)
    ELSE << Head(s) >> \o ReplaceAll(Tail(s), pat, rep)

\* lines 95-99 and 104-107: exampleNames.forEach((name, index) => ...), from
\* index + 1 = k on
RECURSIVE ForEachName(_, _, _)
ForEachName(s, exampleNames, k) ==
    IF k > Len(exampleNames) THEN s
    ELSE ForEachName(ReplaceAll(s, Placeholder(k), exampleNames[k]), exampleNames, k + 1)

\* Array.prototype.join
RECURSIVE Join(_, _)
Join(strs, sep) ==
    IF Len(strs) = 0 THEN << >>
    ELSE IF Len(strs) = 1 THEN strs[1]
    ELSE strs[1] \o sep \o Join(Tail(strs), sep)

\* line 103: `${message.user}: ${message.content.content}`
MessageString(message) == message.user \o << ":", " " >> \o message.content

\* lines 108-111: the action tag is appended after the substitution
ActionSuffix(message) ==
    IF message.action # NoAction /\ message.action # << >>
    THEN << " ", "(" >> \o message.action \o << ")" >>
    ELSE << >>

\* lines 87-116: one example with the names generated for it
FormatExample(ex, exampleNames) ==
    LET formattedContext == ForEachName(ex.context, exampleNames, 1)
        formattedOutcome == ForEachName(ex.outcome, exampleNames, 1)
        bodies == [i \in DOMAIN ex.messages |->
                      ForEachName(MessageString(ex.messages[i]), exampleNames, 1)]
        lines == [i \in DOMAIN ex.messages |-> bodies[i] \o ActionSuffix(ex.messages[i])]
    IN [names |-> exampleNames,
        context |-> formattedContext,
        bodies |-> bodies,
        lines |-> lines,
        outcome |-> formattedOutcome,
        text |-> << "Context:", "\n" >> \o formattedContext
                   \o << "\n", "\n", "Messages:", "\n" >> \o Join(lines, << "\n" >>)
                   \o << "\n", "\n", "Outcome:", "\n" >> \o formattedOutcome]

\* the place of evaluator i's first example among all examples, less one
RECURSIVE Offset(_, _)
Offset(evaluators, i) ==
    IF i = 1 THEN 0 ELSE Offset(evaluators, i - 1) + Len(evaluators[i - 1].examples)

TotalExamples(evaluators) == Offset(evaluators, Len(evaluators) + 1)

\* names the generator may hand out; collisions are possible
NameDraws ==
    { << << "Ann" >>, << "Bob" >>, << "Cy" >>, << "Di" >>, << "Ed" >> >>,
      << << "Ann" >>, << "Ann" >>, << "Bob" >>, << "Bob" >>, << "Ann" >> >>,
      << << "Ed" >>, << "Di" >>, << "Cy" >>, << "Bob" >>, << "Ann" >> >> }

\* lines 83-120: every example of every evaluator, each with names drawn for it
FormatEvaluatorExamples ==
    /\ rendered = NotRendered
    /\ \E draw \in [1..TotalExamples(example) -> NameDraws] :
          LET inst == [i \in DOMAIN example |->
                          [j \in DOMAIN example[i].examples |->
                              FormatExample(example[i].examples[j],
                                            draw[Offset(example, i) + j])]]
              perEvaluator == [i \in DOMAIN example |->
                                  Join([j \in DOMAIN inst[i] |-> inst[i][j].text],
                                       << "\n", "\n" >>)]
          IN rendered' = [done |-> TRUE, instances |-> inst,
                          text |-> Join(perEvaluator, << "\n", "\n" >>)]
    /\ UNCHANGED <<mem, calls, db, last, created, example, registry, selection>>

RenderNext == FormatEvaluatorExamples

----------------------------------------------------------------------------
(* Examples to render *)

\* pieces a context is put together from
MaxPieces == 2

Pieces == { Placeholder(1), << "x" >>, << "{", "{", "user" >> }

RECURSIVE TextsOf(_)
TextsOf(n) ==
    IF n = 0 THEN { << >> }
    ELSE TextsOf(n - 1) \cup { t \o q : t \in TextsOf(n - 1), q \in Pieces }

Outcomes ==
    { << "x" >>, Placeholder(5), Placeholder(6),
      Placeholder(2) \o << "x" >> \o Placeholder(2) }

Messages ==
    [user : { Placeholder(1), << "x" >> },
     content : { Placeholder(2), << "x" >> },
     action : { NoAction, << "WAIT" >>, Placeholder(1) }]

PlainExample ==
    [context |-> Placeholder(1), outcome |-> Placeholder(1),
     messages |-> << [user |-> Placeholder(1), content |-> << "x" >>,
                      action |-> << >>] >>]

Examples ==
    [context : TextsOf(MaxPieces), outcome : Outcomes,
     messages : { << >> } \cup { << m >> : m \in Messages }
                    \cup { << m, PlainExample.messages[1] >> : m \in Messages }]

InitRender ==
    /\ mem = StoreHeap
    /\ calls = [p \in Procs |-> IdleCall]
    /\ db = EmptyDb
    /\ last = NoCall
    /\ created = NoCreated
    /\ \E ex \in Examples :
          example \in { << [examples |-> << ex >>] >>,
                        << [examples |-> << ex, PlainExample >>],
                           [examples |-> << >>],
                           [examples |-> << PlainExample >>] >> }
    /\ rendered = NotRendered
    /\ registry = <<>>
    /\ selection = NotSelected

SpecRender == InitRender /\ [][RenderNext]_vars

----------------------------------------------------------------------------
(* Claims about formatEvaluatorExamples *)

Occurs(pat, s) == \E i \in 1..Len(s) : StartsWith(SubSeq(s, i, Len(s)), pat)

NoPlaceholderIn(s) == \A k \in 1..5 : ~Occurs(Placeholder(k), s)

\* s read once from left to right, each {{userK}}, K in 1..5, giving way to
\* the K-th name and every other character kept
RECURSIVE Substituted(_, _)
Substituted(s, names) ==
    IF s = << >> THEN << >>
    ELSE IF \E k \in 1..5 : StartsWith(s, Placeholder(k))
         THEN names[CHOOSE k \in 1..5 : StartsWith(s, Placeholder(k))]
                  \o Substituted(SubSeq(s, 7, Len(s)), names)
    ELSE << Head(s) >> \o Substituted(Tail(s), names)

Instances ==
    IF rendered.done
    THEN UNION { { << i, j >> : j \in DOMAIN example[i].examples } : i \in DOMAIN example }
    ELSE {}

\* one set of five names per instantiation, and each placeholder of the
\* context, of the speaker-content strings and of the outcome replaced by
\* the name of its number
ConsistentNames(i, j) ==
    LET ex == example[i].examples[j]
        r == rendered.instances[i][j]
    IN /\ Len(r.names) = 5
       /\ r.context = Substituted(ex.context, r.names)
       /\ r.outcome = Substituted(ex.outcome, r.names)
       /\ \A m \in DOMAIN ex.messages :
             /\ r.bodies[m] = Substituted(MessageString(ex.messages[m]), r.names)
             /\ StartsWith(r.lines[m], r.bodies[m])

----------------------------------------------------------------------------
(* EvaluatorSelector.  Of its code only the registry's default content     *)
(* (defaultEvaluators) and the prompt helpers are among the sources at     *)
(* hand; the selection protocol is modelled from its description: prompt,  *)
(* one language-model call, parse, validate against the registry, drop     *)
(* duplicates keeping the first occurrence.                                *)

\* lines 5-8: the evaluators every registry starts with, by name
defaultEvaluators == << "summarization" >>

\* lines 46-50: `'${evaluator.name}'` joined by ",\n"
FormatEvaluatorNames(evaluators) ==
    Join([i \in DOMAIN evaluators |-> << "'", evaluators[i], "'" >>], << ",", "\n" >>)

SelectionParseError == "SelectionParseError"

\* every valid name kept, repeated ones too
RECURSIVE MutKeepDuplicates(_, _, _)
MutKeepDuplicates(names, reg, seen) ==
    IF names = << >> THEN << >>
    ELSE IF Head(names) \in Range(reg)
         THEN << Head(names) >> \o MutKeepDuplicates(Tail(names), reg, seen)
    ELSE MutKeepDuplicates(Tail(names), reg, seen)

\* the names of the response that the registry knows, each at its first
\* occurrence
RECURSIVE ValidNames(_, _, _)
ValidNames(names, reg, seen) ==
    IF names = << >> THEN << >>
    ELSE IF Head(names) \in Range(reg) /\ Head(names) \notin seen
         THEN << Head(names) >> \o ValidNames(Tail(names), reg, seen \cup { Head(names) })
    ELSE ValidNames(Tail(names), reg, seen)

\* names in a language-model response
MaxResponse == 3

ResponseNames == { "summarization", "goal", "bogus" }

Responses ==
    { [parsable |-> FALSE, names |-> << >>] }
    \cup { [parsable |-> TRUE, names |-> n] :
             n \in UNION { [1..k -> ResponseNames] : k \in 0..MaxResponse } }

\* one run of the selector
SelectEvaluators ==
    /\ ~selection.done
    /\ IF registry = << >>
       THEN selection' = [done |-> TRUE, prompt |-> << >>, invoked |-> FALSE,
                          response |-> << >>, outcome |-> "returned", result |-> << >>]
       ELSE \E resp \in Responses :
               selection' =
                   [done |-> TRUE, prompt |-> FormatEvaluatorNames(registry),
                    invoked |-> TRUE, response |-> resp.names,
                    outcome |-> IF resp.parsable THEN "returned" ELSE SelectionParseError,
                    result |-> IF resp.parsable
                               THEN ValidNames(resp.names, registry, {}) ELSE << >>]
    /\ UNCHANGED <<mem, calls, db, last, created, example, rendered, registry>>

\* a later turn
NextTurn ==
    /\ selection.done
    /\ selection' = NotSelected
    /\ UNCHANGED <<mem, calls, db, last, created, example, rendered, registry>>

SelectNext == SelectEvaluators \/ NextTurn

InitSelect ==
    /\ mem = StoreHeap
    /\ calls = [p \in Procs |-> IdleCall]
    /\ db = EmptyDb
    /\ last = NoCall
    /\ created = NoCreated
    /\ example = << >>
    /\ rendered = NotRendered
    /\ registry \in { << >>, defaultEvaluators, defaultEvaluators \o << "goal" >>,
                      << "goal" >> \o defaultEvaluators }
    /\ selection = NotSelected

SpecSelect == InitSelect /\ [][SelectNext]_vars

FirstAt(n, names) == CHOOSE i \in DOMAIN names : names[i] = n /\ \A j \in 1..(i - 1) : names[j] # n

\* C9: the selector's result holds registry names only; a name of the
\* response that the registry does not know is dropped, and each name it
\* knows appears once, in the order of the first occurrences in the response.
C9_OnlyRegistryNamesOnce ==
    (selection.done /\ selection.outcome = "returned") =>
        LET res == selection.result
            resp == selection.response
        IN /\ Range(res) = Range(resp) \cap Range(registry)
           /\ \A i, j \in DOMAIN res : i < j =>
                 /\ res[i] # res[j]
                 /\ FirstAt(res[i], resp) < FirstAt(res[j], resp)

\* an unknown name dropped, a repeated one kept once, the order of the
\* response, not of the registry, kept
C9_Witness ==
    /\ selection.done
    /\ registry = << "summarization", "goal" >>
    /\ selection.response = << "goal", "bogus", "goal" >>
    /\ selection.result = << "goal" >>
====
